---- MODULE Spec2Model ----
(***************************************************************************)
(* Networked monitor: sensor_thread (sensor_manager.c) publishes readings  *)
(* into latest_reading under data_mutex; web_server_thread (web_server.c)  *)
(* accepts connections one at a time and handle_client answers each with   *)
(* the formatted reading, or with 503 when the bounded lock wait times out. *)
(***************************************************************************)
EXTENDS Integers, Sequences, FiniteSets, TLC

(***************************************************************************)
(* Bounds of the model                                                     *)
(***************************************************************************)
\* number of clients that ever connect
MaxConns == 2

(***************************************************************************)
(* Program constants                                                       *)
(***************************************************************************)
\* sizeof(response): char response[256]
RESPONSE_SIZE == 256
\* listen(server_sock, 5)
LISTEN_BACKLOG == 5
\* -EAGAIN, the result of k_mutex_lock when the wait timed out
EAGAIN_RC == -11
INT32_MIN == -2147483647 - 1

(***************************************************************************)
(* struct sensor_value {val1, val2} and struct sensor_reading              *)
(***************************************************************************)
sensor_value(v1, v2) == [val1 |-> v1, val2 |-> v2]

sensor_reading(t, p, h) == [temp |-> t, press |-> p, humidity |-> h]

\* latest_reading has static storage and no initialiser: all fields zero
ZeroValue == sensor_value(0, 0)

ZeroReading == sensor_reading(ZeroValue, ZeroValue, ZeroValue)

\* what the stack slot of sensor_thread's `data` can hold before any
\* channel was read into it: any pair of 32-bit integers
UninitValues ==
  { ZeroValue, sensor_value(INT32_MIN, INT32_MIN) }

\* sensor_thread's `data` is not initialised and is published even when a
\* channel read failed: its first content is arbitrary
UninitReadings == { sensor_reading(u, u, u) : u \in UninitValues }

\* what the driver delivers on a successful sensor_channel_get
DriverValues(ch) ==
  CASE ch = "temp"     -> { sensor_value(23, 456000),
                            sensor_value(-5, -250000) }
    [] ch = "press"    -> { sensor_value(101, 325000) }
    [] ch = "humidity" -> { sensor_value(45, 120000) }

(***************************************************************************)
(* snprintf(response, sizeof(response), fmt, ...) of handle_client         *)
(***************************************************************************)
FMT_HEAD ==
  <<"H","T","T","P","/","1",".","1"," ","2","0","0"," ","O","K","\r","\n",
    "C","o","n","t","e","n","t","-","T","y","p","e",":"," ","t","e","x","t",
    "/","h","t","m","l","\r","\n","\r","\n","<","h","t","m","l",">","<","h",
    "e","a","d",">","<","t","i","t","l","e",">","W","e","a","t","h","e","r",
    " ","S","t","a","t","i","o","n","<","/","t","i","t","l","e",">","<","/",
    "h","e","a","d",">","<","b","o","d","y",">","<","h","1",">","W","e","a",
    "t","h","e","r"," ","S","t","a","t","i","o","n","<","/","h","1",">","<",
    "p",">","T","e","m","p","e","r","a","t","u","r","e",":"," ">>

FMT_AFTER_TEMP ==
  <<" ","C","<","/","p",">","<","p",">","P","r","e","s","s","u","r","e",":",
    " ">>

FMT_AFTER_PRESS ==
  <<" ","k","P","a","<","/","p",">","<","p",">","H","u","m","i","d","i","t",
    "y",":"," ">>

FMT_TAIL ==
  <<" ","%","<","/","p",">","<","/","b","o","d","y",">","<","/","h","t","m",
    "l",">">>

error_response ==
  <<"H","T","T","P","/","1",".","1"," ","5","0","3"," ","S","e","r","v","i",
    "c","e"," ","U","n","a","v","a","i","l","a","b","l","e","\r","\n","\r",
    "\n">>

DigitChar(d) == <<"0","1","2","3","4","5","6","7","8","9">>[d + 1]

RECURSIVE Digits(_)
\* decimal digits of a natural number, most significant first
Digits(n) ==
  IF n < 10 THEN <<DigitChar(n)>>
  ELSE Digits(n \div 10) \o <<DigitChar(n % 10)>>

RECURSIVE DigitsNeg(_)
\* decimal digits of the magnitude of n <= 0, computed without negating n
\* (the magnitude of INT32_MIN is not a 32-bit int)
DigitsNeg(n) ==
  LET last == (10 - (n % 10)) % 10
      rest == (n + last) \div 10
  IN  IF rest = 0 THEN <<DigitChar(last)>>
      ELSE DigitsNeg(rest) \o <<DigitChar(last)>>

RECURSIVE Zeros(_)
Zeros(k) == IF k <= 0 THEN <<>> ELSE <<"0">> \o Zeros(k - 1)

\* "%d" of a 32-bit int
FormatD(n) ==
  IF n < 0 THEN <<"-">> \o DigitsNeg(n) ELSE Digits(n)

\* "%06d" of a 32-bit int: minimum field width 6 counting the sign,
\* zero padding goes between the sign and the digits
Format06D(n) ==
  LET d == IF n < 0 THEN DigitsNeg(n) ELSE Digits(n)
      s == IF n < 0 THEN <<"-">> ELSE <<>>
  IN  s \o Zeros(6 - Len(s) - Len(d)) \o d

FormatValue(v) == FormatD(v.val1) \o <<".">> \o Format06D(v.val2)

\* the complete text the format string produces, before any truncation
FormatFull(d) ==
  FMT_HEAD \o FormatValue(d.temp)
    \o FMT_AFTER_TEMP \o FormatValue(d.press)
    \o FMT_AFTER_PRESS \o FormatValue(d.humidity)
    \o FMT_TAIL

\* snprintf writes at most size-1 characters and a terminating NUL
Snprintf(size, d) ==
  LET full == FormatFull(d)
  IN  IF Len(full) <= size - 1 THEN full ELSE SubSeq(full, 1, size - 1)

(***************************************************************************)
(* struct k_mutex: owner and lock count; k_mutex_lock with a timeout       *)
(***************************************************************************)
NoOwner == "none"

\* K_MUTEX_DEFINE(data_mutex)
MutexInit == [owner |-> NoOwner, lock_count |-> 0]

\* k_mutex_lock returns 0 at once when the mutex is free or already owned
\* by the caller
MutexCanLock(m, t) == m.lock_count = 0 \/ m.owner = t

MutexLock(m, t) == [owner |-> t, lock_count |-> m.lock_count + 1]

\* the bounded wait can only expire while another thread owns the mutex
MutexCanTimeOut(m, t) == m.lock_count > 0 /\ m.owner # t

\* k_mutex_unlock: only the owner releases; otherwise an error is returned
\* and the mutex is left alone
MutexUnlock(m, t) ==
  IF m.owner = t /\ m.lock_count > 0
  THEN IF m.lock_count = 1 THEN MutexInit
       ELSE [m EXCEPT !.lock_count = @ - 1]
  ELSE m

(***************************************************************************)
(* State                                                                   *)
(***************************************************************************)
VARIABLES
  latest_reading,   \* main.c: struct sensor_reading latest_reading
  data_mutex,       \* main.c: K_MUTEX_DEFINE(data_mutex)
  ready,            \* what device_is_ready(bme280) reports when asked now
  pc_sensor,        \* position of sensor_thread
  is_ready,         \* <<b>> once device_is_ready was called and returned b
  sensor_data,      \* sensor_thread: struct sensor_reading data
  sensor_rc,        \* <<rc>>: result of sensor_thread's latest k_mutex_lock
  pc_web,           \* position of web_server_thread / handle_client
  listening,        \* listen(server_sock, 5) was called
  backlog,          \* connections established and waiting for accept
  nconn,            \* number of clients that connected so far
  client_sock,      \* web_server_thread: int client_sock
  client_data,      \* handle_client: struct sensor_reading data
  response,         \* handle_client: char response[256], up to the NUL
  conn,             \* per connection: the socket calls made on it, in order
  accepted,         \* history: connections in the order accept returned them
  handled,          \* history: connections in the order handle_client began
  whole,            \* history: the latest Reading stored as a whole
  seen,             \* history: whole Readings stored while the copy ran
  lock_rc,          \* history: <<rc>> of this handle_client call's lock
  copied,           \* history: <<r>>, the Reading this handle_client copied
  sent              \* history: the sends of this handle_client call

sensor_vars == <<pc_sensor, is_ready, sensor_data, sensor_rc>>

web_vars == <<pc_web, listening, client_sock, client_data, response>>

net_vars == <<backlog, nconn, conn, accepted, handled>>

hist_vars == <<lock_rc, copied, sent>>

vars == <<latest_reading, data_mutex, ready, whole, seen,
          sensor_vars, web_vars, net_vars, hist_vars>>

Conns == 1..MaxConns

SENSOR == "sensor"

WEB == "web"

\* positions of handle_client between the copy of the first field and the
\* copy of the last one
CopyRunning == {"h_copy_press", "h_copy_humidity"}

Init ==
  /\ latest_reading = ZeroReading
  /\ data_mutex = MutexInit
  /\ ready \in BOOLEAN
  /\ pc_sensor = "check_ready"
  /\ is_ready = <<>>
  /\ sensor_data \in UninitReadings
  /\ sensor_rc = <<>>
  /\ pc_web = "start"
  /\ listening = FALSE
  /\ backlog = <<>>
  /\ nconn = 0
  /\ client_sock = -1
  \* handle_client's locals exist only during a call and are written
  \* before they are read
  /\ client_data = ZeroReading
  /\ response = <<>>
  /\ conn = [c \in Conns |-> <<>>]
  /\ accepted = <<>>
  /\ handled = <<>>
  /\ whole = ZeroReading
  /\ seen = {}
  /\ lock_rc = <<>>
  /\ copied = <<>>
  /\ sent = <<>>

(***************************************************************************)
(* Environment: the device and the clients                                 *)
(***************************************************************************)
\* the device stops being ready (driver de-initialised, bus lost)
DeviceFails ==
  /\ ready
  /\ ready' = FALSE
  /\ UNCHANGED <<latest_reading, data_mutex, whole, seen,
                 sensor_vars, web_vars, net_vars, hist_vars>>

\* a client completes the TCP handshake and waits in the listen backlog
ClientConnect ==
  /\ listening
  /\ nconn < MaxConns
  /\ Len(backlog) < LISTEN_BACKLOG
  /\ nconn' = nconn + 1
  /\ backlog' = Append(backlog, nconn + 1)
  /\ UNCHANGED <<latest_reading, data_mutex, ready, whole, seen, conn,
                 accepted, handled, sensor_vars, web_vars, hist_vars>>

(***************************************************************************)
(* sensor_thread                                                           *)
(***************************************************************************)
sensor_frame == <<ready, web_vars, net_vars, hist_vars>>

\* variant: the not-ready branch does not return
SensorCheckReady_NoReturn ==
  /\ pc_sensor = "check_ready"
  /\ is_ready' = <<ready>>
  /\ pc_sensor' = "fetch"
  /\ UNCHANGED <<latest_reading, data_mutex, whole, seen, sensor_data,
                 sensor_rc, sensor_frame>>

\* if (!device_is_ready(bme280)) { LOG_ERR(...); return; }
SensorCheckReady ==
  /\ pc_sensor = "check_ready"
  /\ is_ready' = <<ready>>
  /\ pc_sensor' = IF ready THEN "fetch" ELSE "done"
  /\ UNCHANGED <<latest_reading, data_mutex, whole, seen, sensor_data,
                 sensor_rc, sensor_frame>>

\* sensor_sample_fetch(bme280): the result is ignored
SensorFetch ==
  /\ pc_sensor = "fetch"
  /\ pc_sensor' = "get_temp"
  /\ UNCHANGED <<latest_reading, data_mutex, whole, seen, is_ready,
                 sensor_data, sensor_rc, sensor_frame>>

\* variant: a failed channel read abandons the cycle without publishing
ChannelGet_SkipOnFailure(from, field, to) ==
  /\ pc_sensor = from
  /\ \/ /\ \E v \in DriverValues(field) :
             sensor_data' = [sensor_data EXCEPT ![field] = v]
        /\ pc_sensor' = to
     \/ /\ sensor_data' = sensor_data
        /\ pc_sensor' = "sleep"
  /\ UNCHANGED <<latest_reading, data_mutex, whole, seen, is_ready,
                 sensor_rc, sensor_frame>>

\* sensor_channel_get(bme280, chan, &data.<field>): on success the field
\* receives the driver's value, on failure it keeps what it held
ChannelGet(from, field, to) ==
  /\ pc_sensor = from
  /\ \/ \E v \in DriverValues(field) :
          sensor_data' = [sensor_data EXCEPT ![field] = v]
     \/ sensor_data' = sensor_data
  /\ pc_sensor' = to
  /\ UNCHANGED <<latest_reading, data_mutex, whole, seen, is_ready,
                 sensor_rc, sensor_frame>>

SensorGetTemp == ChannelGet("get_temp", "temp", "get_press")

SensorGetPress == ChannelGet("get_press", "press", "get_humidity")

SensorGetHumidity == ChannelGet("get_humidity", "humidity", "lock")

\* variant: the wait is unbounded, k_mutex_lock(&data_mutex, K_FOREVER)
SensorLock_Forever ==
  /\ pc_sensor = "lock"
  /\ MutexCanLock(data_mutex, SENSOR)
  /\ data_mutex' = MutexLock(data_mutex, SENSOR)
  /\ sensor_rc' = <<0>>
  /\ pc_sensor' = "write_temp"
  /\ UNCHANGED <<latest_reading, whole, seen, is_ready, sensor_data,
                 sensor_frame>>

\* variant: the result of k_mutex_lock is not tested
SensorLock_NoCheck ==
  /\ pc_sensor = "lock"
  /\ \/ /\ MutexCanLock(data_mutex, SENSOR)
        /\ data_mutex' = MutexLock(data_mutex, SENSOR)
        /\ sensor_rc' = <<0>>
     \/ /\ MutexCanTimeOut(data_mutex, SENSOR)
        /\ data_mutex' = data_mutex
        /\ sensor_rc' = <<EAGAIN_RC>>
  /\ pc_sensor' = "write_temp"
  /\ UNCHANGED <<latest_reading, whole, seen, is_ready, sensor_data,
                 sensor_frame>>

\* variant: a timed-out wait ends the thread
SensorLock_ExitOnTimeout ==
  /\ pc_sensor = "lock"
  /\ \/ /\ MutexCanLock(data_mutex, SENSOR)
        /\ data_mutex' = MutexLock(data_mutex, SENSOR)
        /\ sensor_rc' = <<0>>
        /\ pc_sensor' = "write_temp"
     \/ /\ MutexCanTimeOut(data_mutex, SENSOR)
        /\ data_mutex' = data_mutex
        /\ sensor_rc' = <<EAGAIN_RC>>
        /\ pc_sensor' = "done"
  /\ UNCHANGED <<latest_reading, whole, seen, is_ready, sensor_data,
                 sensor_frame>>

\* if (k_mutex_lock(&data_mutex, K_MSEC(500)) == 0) { ... }
SensorLock ==
  /\ pc_sensor = "lock"
  /\ \/ /\ MutexCanLock(data_mutex, SENSOR)
        /\ data_mutex' = MutexLock(data_mutex, SENSOR)
        /\ sensor_rc' = <<0>>
        /\ pc_sensor' = "write_temp"
     \/ /\ MutexCanTimeOut(data_mutex, SENSOR)
        /\ data_mutex' = data_mutex
        /\ sensor_rc' = <<EAGAIN_RC>>
        /\ pc_sensor' = "sleep"
  /\ UNCHANGED <<latest_reading, whole, seen, is_ready, sensor_data,
                 sensor_frame>>

\* latest_reading = data: a structure assignment, copied field by field;
\* with the last field the new Reading is stored as a whole
SensorWrite(from, field, to) ==
  /\ pc_sensor = from
  /\ latest_reading' = [latest_reading EXCEPT ![field] = sensor_data[field]]
  /\ IF to = "unlock"
     THEN /\ whole' = sensor_data
          /\ seen' = IF pc_web \in CopyRunning
                     THEN seen \cup {sensor_data} ELSE seen
     ELSE UNCHANGED <<whole, seen>>
  /\ pc_sensor' = to
  /\ UNCHANGED <<data_mutex, is_ready, sensor_data, sensor_rc, sensor_frame>>

SensorWriteTemp == SensorWrite("write_temp", "temp", "write_press")

SensorWritePress == SensorWrite("write_press", "press", "write_humidity")

SensorWriteHumidity == SensorWrite("write_humidity", "humidity", "unlock")

\* k_mutex_unlock(&data_mutex)
SensorUnlock ==
  /\ pc_sensor = "unlock"
  /\ data_mutex' = MutexUnlock(data_mutex, SENSOR)
  /\ pc_sensor' = "sleep"
  /\ UNCHANGED <<latest_reading, whole, seen, is_ready, sensor_data,
                 sensor_rc, sensor_frame>>

\* variant: the readiness test sits inside the loop
SensorSleep_Recheck ==
  /\ pc_sensor = "sleep"
  /\ pc_sensor' = "check_ready"
  /\ UNCHANGED <<latest_reading, data_mutex, whole, seen, is_ready,
                 sensor_data, sensor_rc, sensor_frame>>

\* k_sleep(K_SECONDS(5)); then the next iteration of while (1)
SensorSleep ==
  /\ pc_sensor = "sleep"
  /\ pc_sensor' = "fetch"
  /\ UNCHANGED <<latest_reading, data_mutex, whole, seen, is_ready,
                 sensor_data, sensor_rc, sensor_frame>>

sensor_thread ==
  \/ SensorCheckReady
  \/ SensorFetch
  \/ SensorGetTemp
  \/ SensorGetPress
  \/ SensorGetHumidity
  \/ SensorLock
  \/ SensorWriteTemp
  \/ SensorWritePress
  \/ SensorWriteHumidity
  \/ SensorUnlock
  \/ SensorSleep

(***************************************************************************)
(* web_server_thread and handle_client                                     *)
(***************************************************************************)
web_frame == <<latest_reading, ready, whole, sensor_vars>>

SendEvent(buf, ok) == [buf |-> buf, ok |-> ok]

\* socket(); bind(); listen(server_sock, 5)
WebListen ==
  /\ pc_web = "start"
  /\ listening' = TRUE
  /\ pc_web' = "accept"
  /\ UNCHANGED <<data_mutex, seen, client_sock, client_data, response,
                 net_vars, hist_vars, web_frame>>

\* int client_sock = accept(server_sock, ...): blocks until a connection
\* waits in the backlog, or fails with a negative result
WebAccept ==
  /\ pc_web = "accept"
  /\ \/ /\ backlog # <<>>
        /\ client_sock' = Head(backlog)
        /\ backlog' = Tail(backlog)
        /\ accepted' = Append(accepted, Head(backlog))
     \/ /\ client_sock' = -1
        /\ UNCHANGED <<backlog, accepted>>
  /\ pc_web' = "check"
  /\ UNCHANGED <<data_mutex, seen, listening, client_data, response, nconn,
                 conn, handled, hist_vars, web_frame>>

\* variant: the accepted connection is not handed to handle_client
WebCheck_NoCall ==
  /\ pc_web = "check"
  /\ pc_web' = "accept"
  /\ UNCHANGED <<handled, lock_rc, copied, sent, seen>>
  /\ UNCHANGED <<data_mutex, listening, client_sock, client_data, response,
                 backlog, nconn, conn, accepted, web_frame>>

\* variant: a failed accept ends the listener loop
WebCheck_ExitOnFailure ==
  /\ pc_web = "check"
  /\ IF client_sock >= 0
     THEN /\ pc_web' = "h_lock"
          /\ handled' = Append(handled, client_sock)
          /\ lock_rc' = <<>>
          /\ copied' = <<>>
          /\ sent' = <<>>
          /\ seen' = {}
     ELSE /\ pc_web' = "stopped"
          /\ UNCHANGED <<handled, lock_rc, copied, sent, seen>>
  /\ UNCHANGED <<data_mutex, listening, client_sock, client_data, response,
                 backlog, nconn, conn, accepted, web_frame>>

\* if (client_sock >= 0) { handle_client(client_sock); }
\* a call starts with fresh locals and a fresh history of the call
WebCheck ==
  /\ pc_web = "check"
  /\ IF client_sock >= 0
     THEN /\ pc_web' = "h_lock"
          /\ handled' = Append(handled, client_sock)
          /\ lock_rc' = <<>>
          /\ copied' = <<>>
          /\ sent' = <<>>
          /\ seen' = {}
     ELSE /\ pc_web' = "accept"
          /\ UNCHANGED <<handled, lock_rc, copied, sent, seen>>
  /\ UNCHANGED <<data_mutex, listening, client_sock, client_data, response,
                 backlog, nconn, conn, accepted, web_frame>>

\* variant: the wait is unbounded, k_mutex_lock(&data_mutex, K_FOREVER)
HandleLock_Forever ==
  /\ pc_web = "h_lock"
  /\ MutexCanLock(data_mutex, WEB)
  /\ data_mutex' = MutexLock(data_mutex, WEB)
  /\ lock_rc' = <<0>>
  /\ pc_web' = "h_copy_temp"
  /\ UNCHANGED <<seen, listening, client_sock, client_data, response,
                 net_vars, copied, sent, web_frame>>

\* variant: the result of k_mutex_lock is not tested
HandleLock_NoCheck ==
  /\ pc_web = "h_lock"
  /\ \/ /\ MutexCanLock(data_mutex, WEB)
        /\ data_mutex' = MutexLock(data_mutex, WEB)
        /\ lock_rc' = <<0>>
     \/ /\ MutexCanTimeOut(data_mutex, WEB)
        /\ data_mutex' = data_mutex
        /\ lock_rc' = <<EAGAIN_RC>>
  /\ pc_web' = "h_copy_temp"
  /\ UNCHANGED <<seen, listening, client_sock, client_data, response,
                 net_vars, copied, sent, web_frame>>

\* if (k_mutex_lock(&data_mutex, K_MSEC(500)) == 0) { ... } else { ... }
HandleLock ==
  /\ pc_web = "h_lock"
  /\ \/ /\ MutexCanLock(data_mutex, WEB)
        /\ data_mutex' = MutexLock(data_mutex, WEB)
        /\ lock_rc' = <<0>>
        /\ pc_web' = "h_copy_temp"
     \/ /\ MutexCanTimeOut(data_mutex, WEB)
        /\ data_mutex' = data_mutex
        /\ lock_rc' = <<EAGAIN_RC>>
        /\ pc_web' = "h_send_503"
  /\ UNCHANGED <<seen, listening, client_sock, client_data, response,
                 net_vars, copied, sent, web_frame>>

\* variant: the assignment is written the wrong way round,
\* latest_reading = data
HandleCopy_Reversed(from, field, to) ==
  /\ pc_web = from
  /\ latest_reading' = [latest_reading EXCEPT ![field] = client_data[field]]
  /\ seen' = IF from = "h_copy_temp" THEN {whole} ELSE seen
  /\ copied' = IF to = "h_unlock" THEN <<client_data>> ELSE copied
  /\ pc_web' = to
  /\ UNCHANGED <<data_mutex, listening, client_sock, client_data, response,
                 net_vars, lock_rc, sent, ready, whole, sensor_vars>>

\* data = latest_reading: a structure assignment, copied field by field
HandleCopy(from, field, to) ==
  /\ pc_web = from
  /\ client_data' = [client_data EXCEPT ![field] = latest_reading[field]]
  /\ seen' = IF from = "h_copy_temp" THEN {whole} ELSE seen
  /\ copied' = IF to = "h_unlock" THEN <<client_data'>> ELSE copied
  /\ pc_web' = to
  /\ UNCHANGED <<data_mutex, listening, client_sock, response, net_vars,
                 lock_rc, sent, web_frame>>

HandleCopyTemp == HandleCopy("h_copy_temp", "temp", "h_copy_press")

HandleCopyPress == HandleCopy("h_copy_press", "press", "h_copy_humidity")

HandleCopyHumidity == HandleCopy("h_copy_humidity", "humidity", "h_unlock")

\* variant: the unlock after the copy is missing
HandleUnlock_Missing ==
  /\ pc_web = "h_unlock"
  /\ data_mutex' = data_mutex
  /\ pc_web' = "h_format"
  /\ UNCHANGED <<seen, listening, client_sock, client_data, response,
                 net_vars, hist_vars, web_frame>>

\* k_mutex_unlock(&data_mutex)
HandleUnlock ==
  /\ pc_web = "h_unlock"
  /\ data_mutex' = MutexUnlock(data_mutex, WEB)
  /\ pc_web' = "h_format"
  /\ UNCHANGED <<seen, listening, client_sock, client_data, response,
                 net_vars, hist_vars, web_frame>>

\* variant: the response is formatted from latest_reading after the
\* unlock instead of from the local copy
HandleFormat_Latest ==
  /\ pc_web = "h_format"
  /\ response' = Snprintf(RESPONSE_SIZE, latest_reading)
  /\ pc_web' = "h_send_200"
  /\ UNCHANGED <<data_mutex, seen, listening, client_sock, client_data,
                 net_vars, hist_vars, web_frame>>

\* snprintf(response, sizeof(response), "HTTP/1.1 200 OK...", data...)
HandleFormat ==
  /\ pc_web = "h_format"
  /\ response' = Snprintf(RESPONSE_SIZE, client_data)
  /\ pc_web' = "h_send_200"
  /\ UNCHANGED <<data_mutex, seen, listening, client_sock, client_data,
                 net_vars, hist_vars, web_frame>>

\* variant: a failed send returns from handle_client at once
Send_ReturnOnFailure(from, buf, to) ==
  /\ pc_web = from
  /\ conn' = [conn EXCEPT ![client_sock] = Append(@, "send")]
  /\ \E ok \in BOOLEAN :
       /\ sent' = Append(sent, SendEvent(buf, ok))
       /\ pc_web' = IF ok THEN to ELSE "accept"
  /\ UNCHANGED <<data_mutex, seen, listening, client_sock, client_data,
                 response, backlog, nconn, accepted, handled, lock_rc,
                 copied, web_frame>>

\* send(client, buf, strlen(buf), 0): the result is ignored
Send(from, buf, to) ==
  /\ pc_web = from
  /\ conn' = [conn EXCEPT ![client_sock] = Append(@, "send")]
  /\ \E ok \in BOOLEAN : sent' = Append(sent, SendEvent(buf, ok))
  /\ pc_web' = to
  /\ UNCHANGED <<data_mutex, seen, listening, client_sock, client_data,
                 response, backlog, nconn, accepted, handled, lock_rc,
                 copied, web_frame>>

\* close(client), after which handle_client returns into while (1) and
\* its locals are gone
Close(from) ==
  /\ pc_web = from
  /\ conn' = [conn EXCEPT ![client_sock] = Append(@, "close")]
  /\ client_data' = ZeroReading
  /\ response' = <<>>
  /\ pc_web' = "accept"
  /\ UNCHANGED <<data_mutex, seen, listening, client_sock, backlog, nconn,
                 accepted, handled, hist_vars, web_frame>>

\* send(client, response, strlen(response), 0)
HandleSend200 == Send("h_send_200", response, "h_close_200")

\* close(client) at the end of handle_client
HandleClose200 == Close("h_close_200")

\* send(client, error_response, strlen(error_response), 0)
HandleSend503 == Send("h_send_503", error_response, "h_close_503")

\* variant: the timeout branch returns without close(client)
HandleClose503_NoClose ==
  /\ pc_web = "h_close_503"
  /\ client_data' = ZeroReading
  /\ response' = <<>>
  /\ pc_web' = "accept"
  /\ UNCHANGED <<data_mutex, seen, listening, client_sock, net_vars,
                 hist_vars, web_frame>>

\* variant: the timeout branch lacks its return and falls into the 200 path
HandleClose503_FallThrough ==
  /\ pc_web = "h_close_503"
  /\ conn' = [conn EXCEPT ![client_sock] = Append(@, "close")]
  /\ pc_web' = "h_format"
  /\ UNCHANGED <<data_mutex, seen, listening, client_sock, client_data,
                 response, backlog, nconn, accepted, handled, hist_vars,
                 web_frame>>

\* close(client); return
HandleClose503 == Close("h_close_503")

handle_client ==
  \/ HandleLock
  \/ HandleCopyTemp
  \/ HandleCopyPress
  \/ HandleCopyHumidity
  \/ HandleUnlock
  \/ HandleFormat
  \/ HandleSend200
  \/ HandleClose200
  \/ HandleSend503
  \/ HandleClose503

web_server_thread ==
  \/ WebListen
  \/ WebAccept
  \/ WebCheck
  \/ handle_client

Next ==
  \/ DeviceFails
  \/ ClientConnect
  \/ sensor_thread
  \/ web_server_thread

Spec == Init /\ [][Next]_vars

(***************************************************************************)
(* Helpers of the properties                                               *)
(***************************************************************************)
\* positions at which a thread is between its lock and its unlock
SensorCS == {"write_temp", "write_press", "write_humidity", "unlock"}

WebCS == {"h_copy_temp", "h_copy_press", "h_copy_humidity", "h_unlock"}

\* positions inside a handle_client call
InHandler ==
  {"h_lock", "h_format", "h_send_200", "h_close_200", "h_send_503",
   "h_close_503"} \cup WebCS

Count(q, x) == Cardinality({i \in DOMAIN q : q[i] = x})

EndsWith(q, suffix) ==
  /\ Len(q) >= Len(suffix)
  /\ SubSeq(q, Len(q) - Len(suffix) + 1, Len(q)) = suffix

Range(q) == {q[i] : i \in DOMAIN q}

\* the handle_client call for connection c has returned
Returned(c) ==
  /\ c \in Range(handled)
  /\ ~(c = client_sock /\ pc_web \in InHandler)

\* the latest handle_client call has returned and no other has begun
CallDone == handled # <<>> /\ pc_web \in {"accept", "check"}

(***************************************************************************)
(* Properties                                                              *)
(***************************************************************************)

\* C1: no torn read. The Reading handle_client copied (temp, press and
\* humidity together) is one of the Readings latest_reading held as a
\* whole while the copy ran: the one stored when the copy began or one the
\* Sampler stored as a whole meanwhile; never a mix of two of them.
C1_NoTornRead ==
  copied # <<>> => copied[1] \in seen

\* a copy of a published Reading has completed while the Sampler waits at
\* the lock with a different Reading
C1_Witness ==
  /\ pc_web = "h_unlock"
  /\ copied # <<>>
  /\ copied[1] # ZeroReading
  /\ pc_sensor = "lock"
  /\ sensor_data # copied[1]

\* C2: mutual exclusion. At most one of the two threads is between its
\* lock and its unlock, the thread that is there owns data_mutex (locked
\* once), and on the timeout paths the thread is outside and does not own it.
C2_MutualExclusion ==
  /\ ~(pc_sensor \in SensorCS /\ pc_web \in WebCS)
  /\ pc_sensor \in SensorCS =>
       data_mutex = [owner |-> SENSOR, lock_count |-> 1]
  /\ pc_web \in WebCS =>
       data_mutex = [owner |-> WEB, lock_count |-> 1]
  /\ pc_web \in {"h_send_503", "h_close_503"} => data_mutex.owner # WEB
  /\ (pc_sensor = "sleep" /\ sensor_rc = <<EAGAIN_RC>>) =>
       data_mutex.owner # SENSOR

\* the Sampler is writing latest_reading while handle_client waits at its lock
C2_Witness ==
  /\ pc_sensor = "write_press"
  /\ pc_web = "h_lock"
  /\ data_mutex.owner = SENSOR

\* C3: every connection is closed exactly once by its handle_client call:
\* nothing is closed twice, nothing is sent or closed after the close, a
\* connection whose call has returned is closed, and a connection no call
\* has begun for is untouched.
C3_ClosedExactlyOnce ==
  \A c \in Conns :
    /\ Count(conn[c], "close") <= 1
    /\ \A i \in DOMAIN conn[c] : conn[c][i] = "close" => i = Len(conn[c])
    /\ Returned(c) => Count(conn[c], "close") = 1
    /\ c \notin Range(handled) => conn[c] = <<>>

\* two calls have returned, the second one on the timeout path
C3_Witness ==
  /\ pc_web = "accept"
  /\ Len(handled) = 2
  /\ lock_rc = <<EAGAIN_RC>>
  /\ \A i \in 1..2 : conn[handled[i]] = <<"send", "close">>

\* C4: a handle_client call sends exactly once: the fixed 503 response
\* (status line and blank line, nothing else) if and only if its lock wait
\* timed out, the formatted 200 response of the copied Reading if and only
\* if the lock was acquired. The timeout path copies nothing and formats
\* nothing.
C4_OneResponse ==
  /\ Len(sent) <= 1
  /\ \A c \in Conns : Count(conn[c], "send") <= 1
  /\ pc_web \in {"h_send_503", "h_close_503"} =>
       /\ lock_rc = <<EAGAIN_RC>>
       /\ copied = <<>>
       /\ response = <<>>
  /\ CallDone =>
       /\ Len(sent) = 1
       /\ Len(lock_rc) = 1
       /\ Count(conn[handled[Len(handled)]], "send") = 1
       /\ lock_rc[1] # 0 <=> sent[1].buf = error_response
       /\ lock_rc[1] # 0 => copied = <<>>
       /\ lock_rc[1] = 0 <=>
            /\ copied # <<>>
            /\ sent[1].buf = Snprintf(RESPONSE_SIZE, copied[1])
       /\ sent[1].buf = error_response =>
            /\ EndsWith(sent[1].buf, <<"\r", "\n", "\r", "\n">>)
            /\ Count(sent[1].buf, "\n") = 2

\* a call whose lock wait timed out has returned after sending the 503
C4_Witness ==
  /\ CallDone
  /\ lock_rc = <<EAGAIN_RC>>
  /\ Len(sent) = 1
  /\ sent[1].buf = error_response

\* C5: data_mutex is not held across a blocking operation: outside the
\* positions between lock and unlock (so in accept, snprintf, send and
\* close; in sensor fetch/get, sleep and after termination) a thread does
\* not own data_mutex.
C5_NoLockAcrossBlocking ==
  /\ pc_web \notin WebCS => data_mutex.owner # WEB
  /\ pc_sensor \notin SensorCS => data_mutex.owner # SENSOR

\* handle_client is in send after a copy while the Sampler owns the mutex
C5_Witness ==
  /\ pc_web = "h_send_200"
  /\ copied # <<>>
  /\ data_mutex.owner = SENSOR
  /\ pc_sensor = "write_humidity"

\* C6: once device_is_ready reported not-ready at startup, sensor_thread
\* has returned, it never called k_mutex_lock and does not own data_mutex,
\* latest_reading is the zero default, and a handle_client call whose lock
\* wait succeeded copied the zero default and answered with exactly one
\* 200 response formatted from it.
C6_NotReadyKeepsDefault ==
  is_ready = <<FALSE>> =>
    /\ pc_sensor = "done"
    /\ sensor_rc = <<>>
    /\ data_mutex.owner # SENSOR
    /\ latest_reading = ZeroReading
    /\ whole = ZeroReading
    /\ copied # <<>> => copied[1] = ZeroReading
    /\ (CallDone /\ lock_rc = <<0>>) =>
         /\ Len(sent) = 1
         /\ sent[1].buf = Snprintf(RESPONSE_SIZE, ZeroReading)

\* the sensor was not ready, and the second connection was answered with
\* the 200 response of the zero default
C6_Witness ==
  /\ is_ready = <<FALSE>>
  /\ CallDone
  /\ Len(handled) = 2
  /\ lock_rc = <<0>>
  /\ Len(sent) = 1
  /\ sent[1].buf = Snprintf(RESPONSE_SIZE, ZeroReading)

\* connection c was returned by accept and not closed yet
Open(c) == c \in Range(accepted) /\ Count(conn[c], "close") = 0

\* C7: connections are served one at a time and in the order accepted:
\* at most one accepted connection is not closed yet, handle_client calls
\* begin in accept order, at most one accepted connection awaits its call,
\* and whenever web_server_thread is at accept every earlier call has
\* returned with its connection closed.
C7_OneAtATime ==
  /\ Cardinality({c \in Conns : Open(c)}) <= 1
  /\ Len(handled) <= Len(accepted)
  /\ handled = SubSeq(accepted, 1, Len(handled))
  /\ Len(accepted) <= Len(handled) + 1
  /\ \A i \in DOMAIN accepted : accepted[i] = i
  /\ pc_web = "accept" =>
       /\ handled = accepted
       /\ \A c \in Range(accepted) : Returned(c) /\ ~Open(c)
  /\ pc_web \in InHandler =>
       /\ handled = accepted
       /\ client_sock = handled[Len(handled)]
       /\ \A c \in Range(handled) \ {client_sock} : ~Open(c)

\* the second connection is being handled after the first was closed,
\* having waited in the backlog
C7_Witness ==
  /\ handled = <<1, 2>>
  /\ pc_web = "h_send_200"
  /\ client_sock = 2
  /\ conn[1] = <<"send", "close">>
  /\ conn[2] = <<>>

\* C8: a timed-out lock wait of sensor_thread publishes nothing: the step
\* leaves latest_reading and data_mutex unchanged and leads to the sleep,
\* the write and the unlock are only reached with a successful lock, and
\* the sleep is followed by the next fetch.
C8_TimeoutSkipsPublish ==
  /\ [](pc_sensor \in SensorCS => sensor_rc = <<0>>)
  /\ [][(pc_sensor = "lock" /\ pc_sensor' # "lock"
           /\ sensor_rc' = <<EAGAIN_RC>>)
         => /\ latest_reading' = latest_reading
            /\ whole' = whole
            /\ data_mutex' = data_mutex
            /\ pc_sensor' = "sleep"]_vars
  /\ [][(pc_sensor = "sleep" /\ pc_sensor' # "sleep")
         => /\ pc_sensor' = "fetch"
            /\ latest_reading' = latest_reading]_vars

\* after a timed-out wait the Sampler is in its next cycle and the Reading
\* it could not publish is not the stored one
C8_Witness ==
  /\ sensor_rc = <<EAGAIN_RC>>
  /\ pc_sensor = "get_temp"
  /\ whole # sensor_data
  /\ latest_reading = whole

\* C9 as stated: every cycle of the Sampler loop begins with the readiness
\* test, so a fetch is only entered from that test and with the sensor
\* ready.
C9_ReadyCheckedEachCycle ==
  [][(pc_sensor' = "fetch" /\ pc_sensor # "fetch")
      => (pc_sensor = "check_ready" /\ ready)]_vars

\* C9 amended: readiness is tested once, before the loop. Not ready at
\* that test: sensor_thread terminates and never fetches or publishes.
\* Ready at that test: the loop is entered, readiness is not tested again
\* and the loop never terminates, whatever the sensor reports later.
C9_ReadyCheckedOnce ==
  /\ [](pc_sensor = "done" => is_ready = <<FALSE>>)
  /\ [](pc_sensor \notin {"check_ready", "done"} => is_ready = <<TRUE>>)
  /\ [][/\ (pc_sensor = "check_ready" /\ pc_sensor' # "check_ready") =>
             /\ is_ready' = <<ready>>
             /\ pc_sensor' = IF ready THEN "fetch" ELSE "done"
        /\ pc_sensor # "check_ready" =>
             /\ pc_sensor' # "check_ready"
             /\ is_ready' = is_ready
        /\ pc_sensor \notin {"check_ready", "done"} => pc_sensor' # "done"
        /\ pc_sensor = "done" =>
             /\ pc_sensor' = "done"
             /\ latest_reading' = latest_reading]_vars

\* the sensor is no longer ready and the Sampler, which found it ready at
\* startup, is publishing in its loop
C9_Witness ==
  /\ ~ready
  /\ is_ready = <<TRUE>>
  /\ pc_sensor = "write_temp"

\* "</body></html>", the end of the format string
HTML_END == SubSeq(FMT_TAIL, 7, Len(FMT_TAIL))

\* C10: the 256-byte buffer suffices: the response handed to send on the
\* 200 path is the complete formatted text of the copied Reading, at most
\* 255 characters, ending in </body></html>.
C10_BufferSuffices ==
  pc_web = "h_send_200" =>
    /\ Len(FormatFull(client_data)) <= RESPONSE_SIZE - 1
    /\ response = FormatFull(client_data)
    /\ EndsWith(response, HTML_END)

\* the characters '0'..'9'
DigitChars == {DigitChar(d) : d \in 0..9}

IsSixDigits(q) == Len(q) = 6 /\ \A i \in 1..6 : q[i] \in DigitChars

\* the fractional part as the response format is described: the
\* magnitude of the micro-units, zero-padded to six digits
SixDigits(n) ==
  LET d == IF n < 0 THEN DigitsNeg(n) ELSE Digits(n)
  IN  Zeros(6 - Len(d)) \o d

\* a field as described: integer part, a dot, six fractional digits
DescribedValue(v) == FormatD(v.val1) \o <<".">> \o SixDigits(v.val2)

\* the 200 response as described: status line, Content-Type header, blank
\* line and the fixed page around the three fields
DescribedPage(d) ==
  FMT_HEAD \o DescribedValue(d.temp)
    \o FMT_AFTER_TEMP \o DescribedValue(d.press)
    \o FMT_AFTER_PRESS \o DescribedValue(d.humidity)
    \o FMT_TAIL

Contains(q, sub) ==
  \E i \in 1..(Len(q) - Len(sub) + 1) : SubSeq(q, i, i + Len(sub) - 1) = sub

\* the Reading (23, 456000), (101, 325000), (45, 120000)
ExampleReading ==
  sensor_reading(sensor_value(23, 456000), sensor_value(101, 325000),
                 sensor_value(45, 120000))

EXAMPLE_TEMP ==
  <<"T","e","m","p","e","r","a","t","u","r","e",":"," ","2","3",".","4","5",
    "6","0","0","0"," ","C">>

EXAMPLE_PRESS ==
  <<"P","r","e","s","s","u","r","e",":"," ","1","0","1",".","3","2","5","0",
    "0","0"," ","k","P","a">>

EXAMPLE_HUMIDITY ==
  <<"H","u","m","i","d","i","t","y",":"," ","4","5",".","1","2","0","0","0",
    "0"," ","%">>

STATUS_AND_HEADER ==
  <<"H","T","T","P","/","1",".","1"," ","2","0","0"," ","O","K","\r","\n","C",
    "o","n","t","e","n","t","-","T","y","p","e",":"," ","t","e","x","t","/",
    "h","t","m","l","\r","\n","\r","\n","<","h","t","m","l",">">>

\* C11: the 200 response handed to send is the status line, the
\* Content-Type header, a blank line and the fixed page, every field of
\* the copied Reading rendered as integer part, dot and a fractional part
\* of exactly six digits; the example Reading yields the three example
\* texts.
C11_ResponseFormat ==
  pc_web = "h_send_200" =>
    /\ copied = <<client_data>>
    /\ SubSeq(response, 1, Len(STATUS_AND_HEADER)) = STATUS_AND_HEADER
    /\ \A f \in {"temp", "press", "humidity"} :
         IsSixDigits(SixDigits(client_data[f].val2))
    /\ response = DescribedPage(client_data)
    /\ client_data = ExampleReading =>
         /\ Contains(response, EXAMPLE_TEMP)
         /\ Contains(response, EXAMPLE_PRESS)
         /\ Contains(response, EXAMPLE_HUMIDITY)

(***************************************************************************)
(* A client-side reader of the 200 response: the inverse of the format     *)
(***************************************************************************)
RECURSIVE IndexFrom(_, _, _)
\* position of the first ch in q at or after i, 0 when there is none
IndexFrom(q, i, ch) ==
  IF i > Len(q) THEN 0
  ELSE IF q[i] = ch THEN i ELSE IndexFrom(q, i + 1, ch)

DigitVal(c) == CHOOSE d \in 0..9 : DigitChar(d) = c

\* an optional sign followed by at least one digit
IsNumber(tok) ==
  LET digits == IF tok # <<>> /\ tok[1] = "-" THEN Tail(tok) ELSE tok
  IN  /\ digits # <<>>
      /\ Len(digits) <= 10
      /\ \A i \in DOMAIN digits : digits[i] \in DigitChars

RECURSIVE ParseNum(_, _, _, _)
\* value of the digits of q from position i on; a negative number is
\* accumulated downwards so that INT32_MIN is read without overflow
ParseNum(q, i, acc, neg) ==
  IF i > Len(q) THEN acc
  ELSE ParseNum(q, i + 1,
                IF neg THEN acc * 10 - DigitVal(q[i])
                ELSE acc * 10 + DigitVal(q[i]),
                neg)

ParseInt(tok) ==
  IF tok[1] = "-" THEN ParseNum(Tail(tok), 1, 0, TRUE)
  ELSE ParseNum(tok, 1, 0, FALSE)

StartsWithAt(q, i, pat) ==
  /\ i + Len(pat) - 1 <= Len(q)
  /\ SubSeq(q, i, i + Len(pat) - 1) = pat

\* the decimal pair that starts at position i: integer part up to the
\* dot, six fractional digits up to the next space; next is that space
ParseValueAt(q, i) ==
  LET dot == IF i = 0 THEN 0 ELSE IndexFrom(q, i, ".")
      sp  == IF dot = 0 THEN 0 ELSE IndexFrom(q, dot + 1, " ")
      int == IF dot = 0 THEN <<>> ELSE SubSeq(q, i, dot - 1)
      fr  == IF sp = 0 THEN <<>> ELSE SubSeq(q, dot + 1, sp - 1)
  IN  IF sp # 0 /\ IsNumber(int) /\ IsSixDigits(fr)
      THEN [ok |-> TRUE, v |-> sensor_value(ParseInt(int), ParseInt(fr)),
            next |-> sp]
      ELSE [ok |-> FALSE, v |-> ZeroValue, next |-> 0]

\* <<Reading>> read back from a 200 response, <<>> when the three pairs
\* are not found in their places
ParseResponse(q) ==
  LET t == IF StartsWithAt(q, 1, FMT_HEAD)
           THEN ParseValueAt(q, Len(FMT_HEAD) + 1)
           ELSE ParseValueAt(q, 0)
      p == IF t.ok /\ StartsWithAt(q, t.next, FMT_AFTER_TEMP)
           THEN ParseValueAt(q, t.next + Len(FMT_AFTER_TEMP))
           ELSE ParseValueAt(q, 0)
      h == IF p.ok /\ StartsWithAt(q, p.next, FMT_AFTER_PRESS)
           THEN ParseValueAt(q, p.next + Len(FMT_AFTER_PRESS))
           ELSE ParseValueAt(q, 0)
  IN  IF h.ok /\ StartsWithAt(q, h.next, <<" ", "%">>)
      THEN <<sensor_reading(t.v, p.v, h.v)>>
      ELSE <<>>

C13_AcceptFailureIgnored ==
  /\ [](pc_web \in InHandler => client_sock >= 0)
  /\ []((pc_web = "accept" /\ backlog # <<>>) =>
          ENABLED (WebAccept /\ client_sock' = Head(backlog)))
  /\ [][(pc_web = "accept" /\ pc_web' # "accept" /\ client_sock' < 0)
         => /\ pc_web' = "check"
            /\ UNCHANGED <<conn, backlog, accepted, handled, hist_vars,
                           data_mutex, latest_reading>>]_vars
  /\ [][(pc_web = "check" /\ pc_web' # "check" /\ client_sock < 0)
         => /\ pc_web' = "accept"
            /\ UNCHANGED <<conn, backlog, accepted, handled, hist_vars,
                           data_mutex, latest_reading>>]_vars

\* after one handled connection an accept failed, and the thread is back
\* at accept with the next connection waiting
C13_Witness ==
  /\ pc_web = "accept"
  /\ client_sock < 0
  /\ Len(handled) = 1
  /\ backlog # <<>>

\* C14: a send is never repeated and its failure changes nothing else:
\* whether it succeeded or failed, the send step leaves latest_reading and
\* data_mutex alone and leads to the close of the same path, the close
\* leads back to accept, and a returned call has made exactly one send
\* followed by the close.
C14_SendFailureIgnored ==
  /\ [](Len(sent) <= 1)
  /\ [](CallDone =>
          /\ Len(sent) = 1
          /\ conn[handled[Len(handled)]] = <<"send", "close">>)
  /\ [][Len(sent') > Len(sent)
         => /\ pc_web \in {"h_send_200", "h_send_503"}
            /\ pc_web' = IF pc_web = "h_send_200" THEN "h_close_200"
                         ELSE "h_close_503"
            /\ UNCHANGED <<latest_reading, data_mutex, client_sock>>]_vars
  /\ [][(pc_web \in {"h_close_200", "h_close_503"} /\ pc_web' # pc_web)
         => /\ pc_web' = "accept"
            /\ conn'[client_sock] = Append(conn[client_sock], "close")
            /\ UNCHANGED <<latest_reading, data_mutex, sent>>]_vars

\* the send of the 200 response failed; the connection was closed all the
\* same and the thread is at accept with the next connection waiting
C14_Witness ==
  /\ pc_web = "accept"
  /\ lock_rc = <<0>>
  /\ Len(sent) = 1
  /\ ~sent[1].ok
  /\ conn[client_sock] = <<"send", "close">>
  /\ backlog # <<>>

\* C15: latest_reading is written only by sensor_thread, under the lock,
\* as a replacement of the whole value: a step that changes it is a write
\* step of sensor_thread owning data_mutex, no step of web_server_thread
\* or handle_client changes it, at the unlock it equals the Sampler's
\* Reading as a whole, and after its unlock handle_client formats and
\* sends its private copy.
C15_OnlySamplerWrites ==
  /\ [](pc_sensor = "unlock" => latest_reading = sensor_data)
  /\ [](pc_web \in {"h_format", "h_send_200", "h_close_200"} =>
          /\ copied = <<client_data>>
          /\ data_mutex.owner # WEB)
  /\ [](pc_web \in {"h_send_200", "h_close_200"} =>
          response = Snprintf(RESPONSE_SIZE, copied[1]))
  /\ [][latest_reading' # latest_reading
         => /\ pc_sensor \in {"write_temp", "write_press", "write_humidity"}
            /\ pc_sensor' # pc_sensor
            /\ data_mutex.owner = SENSOR
            /\ \E f \in {"temp", "press", "humidity"} :
                 latest_reading' =
                   [latest_reading EXCEPT ![f] = sensor_data[f]]
            /\ UNCHANGED web_vars]_vars
  /\ [][pc_web' # pc_web => latest_reading' = latest_reading]_vars

\* handle_client is sending its copy of a published Reading while
\* latest_reading already holds a newer one
C15_Witness ==
  /\ pc_web = "h_send_200"
  /\ copied = <<client_data>>
  /\ client_data # ZeroReading
  /\ latest_reading # client_data
  /\ latest_reading = whole

(***************************************************************************)
(* Scheduling                                                              *)
(***************************************************************************)
\* the scheduling properties are checked from the start in which the
\* stack slot of sensor_thread's `data` happens to hold zeros
LiveInit == Init /\ sensor_data = ZeroReading

\* sensor_thread is scheduled whenever it can run, and a handle_client
\* waiting in k_mutex_lock is woken by the kernel (lock handed over or
\* timeout expired). Nothing is assumed about the other steps of the web
\* thread: accept and send may block forever.
SamplerFairSpec ==
  LiveInit /\ [][Next]_vars /\ WF_vars(sensor_thread) /\ WF_vars(HandleLock)

\* C16: the bounded waits end. A thread at its k_mutex_lock can always
\* leave it (no deadlock on data_mutex); every lock attempt of
\* sensor_thread ends acquired or timed out, and once the sensor was found
\* ready the Sampler comes to its next lock attempt again and again, so it
\* completes cycles forever; every lock attempt of handle_client ends in
\* the copy or the 503 path.
C16_BoundedWaits ==
  /\ [](pc_sensor = "lock" => ENABLED SensorLock)
  /\ [](pc_web = "h_lock" => ENABLED HandleLock)
  /\ (pc_sensor = "lock") ~> (pc_sensor \in {"write_temp", "sleep"})
  /\ (is_ready = <<TRUE>>) ~> (pc_sensor = "lock")
  /\ (pc_web = "h_lock") ~> (pc_web \in {"h_copy_temp", "h_send_503"})

\* while handle_client is in send, the Sampler has published a newer
\* Reading than the one being sent and completed its cycle
C16_Witness ==
  /\ pc_web = "h_send_200"
  /\ pc_sensor = "sleep"
  /\ sensor_rc = <<0>>
  /\ copied # <<>>
  /\ whole # copied[1]

\* the step of sensor_thread that follows sensor_channel_get for `field`
\* goes on to `to`, and the local Reading differs from before at most in
\* `field`, which then holds a value of the driver
GetStepOk(from, field, to) ==
  (pc_sensor = from /\ pc_sensor' # from) =>
     /\ pc_sensor' = to
     /\ \A f \in {"temp", "press", "humidity"} \ {field} :
          sensor_data'[f] = sensor_data[f]
     /\ sensor_data'[field] \in DriverValues(field) \cup {sensor_data[field]}

\* C17: read failures never suppress a publish. Whatever sensor_sample_fetch
\* and the three sensor_channel_get calls returned, the cycle goes on to the
\* lock attempt; a channel whose read failed keeps the value the local
\* Reading held; once data_mutex is acquired the three fields are stored and
\* at the unlock latest_reading is the local Reading; nothing in the loop
\* ends the thread.
C17_FailuresStillPublish ==
  /\ [](pc_sensor = "unlock" =>
          latest_reading = sensor_data /\ whole = sensor_data)
  /\ [][ /\ (pc_sensor = "fetch" /\ pc_sensor' # "fetch") =>
              pc_sensor' = "get_temp" /\ sensor_data' = sensor_data
         /\ GetStepOk("get_temp", "temp", "get_press")
         /\ GetStepOk("get_press", "press", "get_humidity")
         /\ GetStepOk("get_humidity", "humidity", "lock")
         /\ (pc_sensor = "lock" /\ sensor_rc' = <<0>> /\ pc_sensor' # "lock")
              => pc_sensor' = "write_temp"
         /\ (pc_sensor = "write_temp" /\ pc_sensor' # "write_temp")
              => pc_sensor' = "write_press" /\ sensor_data' = sensor_data
         /\ (pc_sensor = "write_press" /\ pc_sensor' # "write_press")
              => pc_sensor' = "write_humidity" /\ sensor_data' = sensor_data
         /\ (pc_sensor = "write_humidity" /\ pc_sensor' # "write_humidity")
              => pc_sensor' = "unlock" /\ sensor_data' = sensor_data
         /\ (pc_sensor \notin {"check_ready", "done"}) => pc_sensor' # "done"
     ]_vars

\* a cycle in which the temperature was read and the pressure read failed
\* from the start has published: the stored Reading carries the driver's
\* temperature next to the pressure the local Reading started with
C17_Witness ==
  /\ pc_sensor = "unlock"
  /\ whole.temp \in DriverValues("temp")
  /\ whole.press = sensor_value(INT32_MIN, INT32_MIN)
  /\ latest_reading = whole

\* the web thread is scheduled whenever it can run and, inside
\* handle_client, every call returns: the bounded k_mutex_lock, send and
\* close. accept may block forever, and nothing is assumed about
\* sensor_thread, which may stop anywhere, also between lock and unlock.
ListenerFairSpec ==
  LiveInit /\ [][Next]_vars /\ WF_vars(WebCheck) /\ WF_vars(handle_client)

\* the connection the web thread is working on: accepted, not yet returned
InService(c) == c = client_sock /\ pc_web \in InHandler \cup {"check"}

\* C18: every accepted connection is served. A connection that accept
\* returned is led to the state in which it has seen exactly one send
\* followed by its close, with the Listener back at accept; an accepted
\* connection that is no longer being worked on stays in that state.
C18_EveryAcceptedServed ==
  /\ [](\A c \in Range(accepted) :
          InService(c) \/ conn[c] = <<"send", "close">>)
  /\ (pc_web = "check" /\ client_sock >= 0)
       ~> (/\ pc_web = "accept"
           /\ \E c \in Conns : c = client_sock /\ conn[c] = <<"send", "close">>)

\* a connection was answered and closed, and the Listener is back at
\* accept, while sensor_thread still sits between its lock and its unlock
C18_Witness ==
  /\ pc_web = "accept"
  /\ client_sock >= 0
  /\ conn[client_sock] = <<"send", "close">>
  /\ lock_rc = <<EAGAIN_RC>>
  /\ pc_sensor \in SensorCS

\* the formatted text up to and including the humidity value
FormatThroughHumidity(d) ==
  FMT_HEAD \o FormatValue(d.temp)
    \o FMT_AFTER_TEMP \o FormatValue(d.press)
    \o FMT_AFTER_PRESS \o FormatValue(d.humidity)

\* C19: freshness of a served Reading. When handle_client has the lock,
\* latest_reading is the Reading the Sampler stored last as a whole (the
\* zero default before the first publish); no publish completes during the
\* copy, so the copy is exactly that Reading, and it still is the latest
\* one when the copy ends; the 200 response handed to send is the text
\* formatted from that copy and carries its three values.
C19_FreshReading ==
  /\ pc_web = "h_copy_temp" => latest_reading = whole
  /\ copied # <<>> => seen = {copied[1]}
  /\ pc_web = "h_unlock" => copied = <<whole>> /\ client_data = whole
  /\ pc_web = "h_close_200" =>
       /\ Len(sent) = 1
       /\ sent[1].buf = Snprintf(RESPONSE_SIZE, copied[1])
       /\ StartsWithAt(sent[1].buf, 1, FormatThroughHumidity(copied[1]))

\* a 200 response was sent with a published Reading while the Sampler has
\* already published a different one
C19_Witness ==
  /\ pc_web = "h_close_200"
  /\ copied # <<>>
  /\ copied[1] # ZeroReading
  /\ whole # copied[1]
  /\ latest_reading = whole
  /\ Len(sent) = 1
  /\ sent[1].buf = Snprintf(RESPONSE_SIZE, copied[1])

====
